---- MODULE Spec2Model ----
(***************************************************************************)
(* Model of src/ad.py: an expression graph (Variable, Constant, Addition,  *)
(* Subtraction, Multiplication, Division), its memoized evaluator          *)
(* Expression.eval and its memoized forward differentiator Expression.d.   *)
(*                                                                         *)
(* A client session owns an arena of nodes (a node's index is its object   *)
(* identity, id(self)), builds nodes by the constructors and the operator  *)
(* overloads, and calls eval / d on the node it built last.  Each call is  *)
(* run as the Python call stack runs it: one frame per _eval / _d          *)
(* invocation, one action per method, and a call nested deeper than the    *)
(* interpreter's recursion limit raises RecursionError.                    *)
(*                                                                         *)
(* Numbers are Python numbers: ints of unbounded precision and floats      *)
(* (IEEE-754 doubles), with Python's operators: int op int is exact for    *)
(* +, -, *; "/" is true division and always gives a float; an operation    *)
(* with a float operand converts the other operand to float and rounds     *)
(* its result to the nearest double.                                       *)
(***************************************************************************)
EXTENDS Integers, Sequences, FiniteSets, TLC

\* ------------------------------------------------------------------ bounds
\* Largest number of nodes a session allocates.
MaxNodes == 3

\* Names given to Variable(name).
VarNames == {"x", "y"}

\* ----------------------------------------------------------------- numbers
\* The values eval and d compute with are Python numbers: an int has
\* unbounded precision, a float is an IEEE-754 double, and every operation
\* that yields a float rounds its exact result once, to nearest, ties to even.
\*
\* A natural number is the sequence of its digits in base 2^15, least
\* significant first, with no leading zero digit (<<>> is 0).  A sequence
\* given digit by digit is written <<>> \o [i \in 1..n |-> ...], which is
\* that sequence as a tuple.
LimbBits == 15
Base == 32768
\* A double has a 53-bit significand; its least bit weighs at least 2^-1074
\* and it is less than 2^1024.
MantBits == 53
MinExp == -1074
MaxBits == 1024

\* F(v): the value v, an intermediate result, is computed once and F uses
\* it under a name.
With(v, F(_)) == CHOOSE r \in {F(x) : x \in {v}} : TRUE

Pow2(k) == 2 ^ k

BitLenSmall(i) == Cardinality({k \in 0..(LimbBits - 1) : Pow2(k) <= i})

Max(S) == CHOOSE i \in S : \A j \in S : j <= i
Min(S) == CHOOSE i \in S : \A j \in S : i <= j

\* The positions of the non-zero digits.
NonZero(a) == {i \in 1..Len(a) : a[i] # 0}

\* Leading zero digits dropped.
NatTrim(a) ==
    IF a = <<>> \/ a[Len(a)] # 0 THEN a
    ELSE With(NonZero(a), LAMBDA nz :
         IF nz = {} THEN <<>> ELSE SubSeq(a, 1, Max(nz)))

RECURSIVE NatOf(_)
NatOf(i) == IF i = 0 THEN <<>> ELSE <<i % Base>> \o NatOf(i \div Base)

Limb(a, i) == IF 1 <= i /\ i <= Len(a) THEN a[i] ELSE 0

\* The carry into digit i of a + b: some digit below overflows, and every
\* digit between passes a carry on.
Carry(a, b, i) ==
    \E j \in 1..(i - 1) :
        /\ Limb(a, j) + Limb(b, j) >= Base
        /\ \A k \in (j + 1)..(i - 1) : Limb(a, k) + Limb(b, k) = Base - 1

NatAdd(a, b) ==
    IF a = <<>> THEN b
    ELSE IF b = <<>> THEN a
    ELSE With(IF Len(a) > Len(b) THEN Len(a) ELSE Len(b), LAMBDA n :
         With(<<>> \o [i \in 1..(n + 1) |->
                (Limb(a, i) + Limb(b, i) + IF Carry(a, b, i) THEN 1 ELSE 0) % Base],
              LAMBDA sum : NatTrim(sum)))

\* The borrow from digit i of a - b.
Borrow(a, b, i) ==
    \E j \in 1..(i - 1) :
        /\ Limb(a, j) < Limb(b, j)
        /\ \A k \in (j + 1)..(i - 1) : Limb(a, k) = Limb(b, k)

\* a - b for a >= b
NatSub(a, b) ==
    IF b = <<>> THEN a
    ELSE With(<<>> \o [i \in 1..Len(a) |->
                (a[i] - Limb(b, i) - (IF Borrow(a, b, i) THEN 1 ELSE 0) + Base) % Base],
              LAMBDA diff : NatTrim(diff))

\* -1, 0, 1 as a < b, a = b, a > b
NatCmp(a, b) ==
    IF Len(a) < Len(b) THEN -1
    ELSE IF Len(a) > Len(b) THEN 1
    ELSE IF a = b THEN 0
    ELSE With(Max({j \in 1..Len(a) : a[j] # b[j]}), LAMBDA i :
         IF a[i] < b[i] THEN -1 ELSE 1)

NatShiftLimbs(a, n) == IF a = <<>> THEN <<>> ELSE [i \in 1..n |-> 0] \o a

\* a * k for a digit k: the low halves of the digit products, plus their
\* high halves one digit up.
NatMulSmall(a, k) ==
    IF k = 0 THEN <<>>
    ELSE IF k = 1 THEN a
    ELSE With(<<>> \o [i \in 1..Len(a) |-> (a[i] * k) % Base], LAMBDA low :
         With(<<>> \o [i \in 1..Len(a) |-> (a[i] * k) \div Base], LAMBDA high :
         With(NatTrim(low), LAMBDA l :
         With(NatTrim(high), LAMBDA h :
         With(NatShiftLimbs(h, 1), LAMBDA hs : NatAdd(l, hs))))))

\* a times the digits lo..hi of b, in place.
RECURSIVE NatMulRange(_, _, _, _)
NatMulRange(a, b, lo, hi) ==
    IF lo = hi
    THEN With(NatMulSmall(a, b[lo]), LAMBDA p : NatShiftLimbs(p, lo - 1))
    ELSE With((lo + hi) \div 2, LAMBDA mid :
         With(NatMulRange(a, b, lo, mid), LAMBDA l :
         With(NatMulRange(a, b, mid + 1, hi), LAMBDA h : NatAdd(l, h))))

NatMul(a, b) == IF a = <<>> \/ b = <<>> THEN <<>> ELSE NatMulRange(a, b, 1, Len(b))

\* a * 2^k
NatShl(a, k) ==
    IF k = 0 THEN a
    ELSE With(NatMulSmall(a, Pow2(k % LimbBits)), LAMBDA p :
         NatShiftLimbs(p, k \div LimbBits))

\* a \div 2^k
NatShr(a, k) ==
    With(k \div LimbBits, LAMBDA n :
    With(k % LimbBits, LAMBDA r :
    IF n >= Len(a) THEN <<>>
    ELSE With(<<>> \o [i \in 1..(Len(a) - n) |->
                (Limb(a, i + n) \div Pow2(r))
                + (Limb(a, i + n + 1) % Pow2(r)) * Pow2(LimbBits - r)],
              LAMBDA q : NatTrim(q))))

NatBitLen(a) ==
    IF a = <<>> THEN 0
    ELSE LimbBits * (Len(a) - 1) + BitLenSmall(a[Len(a)])

\* Bit i of a, bit 0 the least significant.
NatBit(a, i) == (Limb(a, i \div LimbBits + 1) \div Pow2(i % LimbBits)) % 2

TrailingZerosSmall(i) == Max({k \in 0..LimbBits : i % Pow2(k) = 0})

\* The number of trailing zero bits of a # 0.
NatTrailingZeros(a) ==
    With(Min(NonZero(a)), LAMBDA i :
    LimbBits * (i - 1) + TrailingZerosSmall(a[i]))

\* Long division by digits.  For a divisor d whose top digit is at least
\* Base / 2 and a partial remainder r < d * Base, the quotient digit is at
\* most two below the estimate made from the top two digits of r and the
\* top digit of d.
QuotientDigit(r, d) ==
    With((Limb(r, Len(d) + 1) * Base + Limb(r, Len(d))) \div d[Len(d)], LAMBDA top :
    With(IF top < Base THEN top ELSE Base - 1, LAMBDA qhat :
    With(NatMulSmall(d, qhat), LAMBDA p :
    IF NatCmp(p, r) <= 0 THEN qhat
    ELSE With(NatMulSmall(d, qhat - 1), LAMBDA p1 :
         IF NatCmp(p1, r) <= 0 THEN qhat - 1 ELSE qhat - 2))))

\* <<quotient digits, most significant first, remainder>> of
\* (rem * Base^(hi - lo + 1) + the digits lo..hi of n) by d, for rem < d:
\* the upper digits are brought down first, the lower ones go on from their
\* remainder.
RECURSIVE NatDivModDigits(_, _, _, _, _)
NatDivModDigits(n, d, lo, hi, rem) ==
    IF lo = hi
    THEN With(<<n[lo]>> \o rem, LAMBDA r0 :
         With(NatTrim(r0), LAMBDA r :
         With(QuotientDigit(r, d), LAMBDA q :
         With(NatMulSmall(d, q), LAMBDA p :
         <<(<<q>>), NatSub(r, p)>>))))
    ELSE With((lo + hi) \div 2, LAMBDA mid :
         With(NatDivModDigits(n, d, mid + 1, hi, rem), LAMBDA upper :
         With(upper[2], LAMBDA urem :
         With(NatDivModDigits(n, d, lo, mid, urem), LAMBDA lower :
         <<upper[1] \o lower[1], lower[2]>>))))

\* <<n \div d, n % d>> for d # 0.  Both are scaled by 2^s to bring the top
\* digit of d up to Base / 2, which leaves the quotient as it is; the top
\* digits of n, one fewer than d has, are below d and start as the
\* remainder.
NatDivMod(n, d) ==
    With(LimbBits - BitLenSmall(d[Len(d)]), LAMBDA s :
    With(NatShl(n, s), LAMBDA nn :
    With(NatShl(d, s), LAMBDA dd :
    With(Len(nn) - Len(dd) + 1, LAMBDA k :
    IF k <= 0 THEN <<(<<>>), n>>
    ELSE With(SubSeq(nn, k + 1, Len(nn)), LAMBDA top :
         With(NatDivModDigits(nn, dd, 1, k, top), LAMBDA qr :
         With(<<>> \o [i \in 1..k |-> qr[1][k + 1 - i]], LAMBDA q :
         <<NatTrim(q), NatShr(qr[2], s)>>)))))))

\* A Python number: t is "int" or "float" for the finite value s * m * 2^e
\* (s the sign 1 or -1, m a natural number), "inf" for a float infinity of
\* sign s, "nan" for the float NaN.  A non-zero value is kept with m odd, so
\* that equal values of a type are equal records, and e >= 0 for an int.
\* Zero has m = 0 and e = 0; the float zero keeps its sign.
PyNum(t, s, m, e) == [t |-> t, s |-> s, m |-> m, e |-> e]
\* "No number": an unset local, an absent feed_dict key.
None == PyNum("none", 1, <<>>, 0)

Abs(i) == IF i < 0 THEN -i ELSE i
Sign(i) == IF i < 0 THEN -1 ELSE 1
\* The Python int s * m * 2^e.
PyInt(s, m, e) ==
    IF m = <<>> THEN PyNum("int", 1, <<>>, 0)
    ELSE With(NatTrailingZeros(m), LAMBDA z :
         PyNum("int", s, NatShr(m, z), e + z))
\* The Python int i, for a small i.
Num(i) == With(NatOf(Abs(i)), LAMBDA m : PyInt(Sign(i), m, 0))
\* The Python float s * m * 2^e, already a double.
PyFloat(s, m, e) ==
    IF m = <<>> THEN PyNum("float", s, <<>>, 0)
    ELSE With(NatTrailingZeros(m), LAMBDA z :
         PyNum("float", s, NatShr(m, z), e + z))
Inf(s) == PyNum("inf", s, <<>>, 0)
NaN == PyNum("nan", 1, <<>>, 0)

IsZero(a) == a.t \in {"int", "float"} /\ a.m = <<>>

\* The outcome of an operation: a number, or the exception it raises.
NoResult == [t |-> "none", v |-> None, name |-> ""]
Returned(v) == [t |-> "number", v |-> v, name |-> ""]
\* raise ValueError('Unbound variable %s' % self.name)
UnboundVariable(name) == [t |-> "UnboundVariable", v |-> None, name |-> name]
\* A division by an int or float zero.
ZeroDivisionError == [t |-> "ZeroDivisionError", v |-> None, name |-> ""]
\* An int too large to become a float.
OverflowError == [t |-> "OverflowError", v |-> None, name |-> ""]
\* A call nested deeper than the interpreter's recursion limit.
RecursionError == [t |-> "RecursionError", v |-> None, name |-> ""]

\* The double nearest to (m + f) * 2^e, where 0 <= f < 1 and f > 0 iff
\* sticky (then m has more than MantBits + 1 bits): <<q, x>> for q * 2^x,
\* not yet reduced; ties go to the even significand, and below 2^MinExp
\* the significand loses bits (gradual underflow).
RoundNearest(m, e, sticky) ==
    With(IF e + NatBitLen(m) - MantBits > MinExp
         THEN e + NatBitLen(m) - MantBits ELSE MinExp, LAMBDA x :
    IF x - e <= 0 THEN <<m, e>>
    ELSE With(NatShr(m, x - e), LAMBDA q :
         With(NatSub(m, NatShl(q, x - e)), LAMBDA low :
         With(NatCmp(low, NatShl(<<1>>, x - e - 1)), LAMBDA c :
         IF c > 0 \/ (c = 0 /\ (sticky \/ NatBit(q, 0) = 1))
         THEN <<NatAdd(q, <<1>>), x>>
         ELSE <<q, x>>))))

\* q * 2^x is beyond the largest double.
TooLarge(r) == NatBitLen(r[1]) + r[2] > MaxBits

\* A float operation's result s * (m + f) * 2^e: overflow gives an infinity.
FloatOf(s, m, e, sticky) ==
    With(RoundNearest(m, e, sticky), LAMBDA r :
    IF TooLarge(r) THEN Inf(s) ELSE PyFloat(s, r[1], r[2]))

\* float(a) as the float operations convert an int operand
\* ("int too large to convert to float").
ToFloat(a) ==
    IF a.t # "int" THEN Returned(a)
    ELSE With(RoundNearest(a.m, a.e, FALSE), LAMBDA r :
         IF TooLarge(r) THEN OverflowError
         ELSE Returned(PyFloat(a.s, r[1], r[2])))

\* The exact sum of two finite numbers, as sign, magnitude and exponent.
ExactSum(a, b) ==
    With(IF a.e < b.e THEN a.e ELSE b.e, LAMBDA e :
    With(NatShl(a.m, a.e - e), LAMBDA x :
    With(NatShl(b.m, b.e - e), LAMBDA y :
    IF a.s = b.s THEN [s |-> a.s, m |-> NatAdd(x, y), e |-> e]
    ELSE IF NatCmp(x, y) >= 0 THEN [s |-> a.s, m |-> NatSub(x, y), e |-> e]
    ELSE [s |-> b.s, m |-> NatSub(y, x), e |-> e])))

\* a + b for ints
IntAdd(a, b) ==
    IF a.m = <<>> THEN b
    ELSE IF b.m = <<>> THEN a
    ELSE With(ExactSum(a, b), LAMBDA sum : PyInt(sum.s, sum.m, sum.e))

Neg(a) == IF a.t \in {"nan", "none"} \/ (a.t = "int" /\ a.m = <<>>) THEN a
          ELSE [a EXCEPT !.s = -a.s]

\* a + b for floats
FloatAdd(a, b) ==
    IF a.t = "nan" \/ b.t = "nan" THEN NaN
    ELSE IF a.t = "inf" THEN (IF b.t = "inf" /\ b.s # a.s THEN NaN ELSE a)
    ELSE IF b.t = "inf" THEN b
    ELSE IF a.m = <<>> /\ b.m = <<>> THEN PyFloat(IF a.s = b.s THEN a.s ELSE 1, <<>>, 0)
    ELSE IF a.m = <<>> THEN b
    ELSE IF b.m = <<>> THEN a
    ELSE With(ExactSum(a, b), LAMBDA sum :
         IF sum.m = <<>> THEN PyFloat(1, <<>>, 0)
         ELSE FloatOf(sum.s, sum.m, sum.e, FALSE))

\* a * b for floats
FloatMul(a, b) ==
    IF a.t = "nan" \/ b.t = "nan" THEN NaN
    ELSE IF a.t = "inf" \/ b.t = "inf"
         THEN IF IsZero(a) \/ IsZero(b) THEN NaN ELSE Inf(a.s * b.s)
    ELSE IF a.m = <<>> \/ b.m = <<>> THEN PyFloat(a.s * b.s, <<>>, 0)
    ELSE With(NatMul(a.m, b.m), LAMBDA m :
         FloatOf(a.s * b.s, m, a.e + b.e, FALSE))

\* The quotient (m1 * 2^e1) / (m2 * 2^e2) of non-zero operands to
\* MantBits + 2 or MantBits + 3 bits and what is left: <<q, x, sticky>>
\* for (q + f) * 2^x.
Quotient(m1, e1, m2, e2) ==
    With(MantBits + 2 + NatBitLen(m2) - NatBitLen(m1), LAMBDA sh :
    With(IF sh > 0 THEN NatShl(m1, sh) ELSE m1, LAMBDA n :
    With(IF sh < 0 THEN NatShl(m2, -sh) ELSE m2, LAMBDA d :
    With(NatDivMod(n, d), LAMBDA qr :
    <<qr[1], e1 - e2 - sh, qr[2] # <<>> >>))))

\* a / b for floats ("float division by zero")
FloatDiv(a, b) ==
    IF IsZero(b) THEN ZeroDivisionError
    ELSE IF a.t = "nan" \/ b.t = "nan" THEN Returned(NaN)
    ELSE IF a.t = "inf"
         THEN Returned(IF b.t = "inf" THEN NaN ELSE Inf(a.s * b.s))
    ELSE IF b.t = "inf" \/ a.m = <<>> THEN Returned(PyFloat(a.s * b.s, <<>>, 0))
    ELSE With(Quotient(a.m, a.e, b.m, b.e), LAMBDA q :
         Returned(FloatOf(a.s * b.s, q[1], q[2], q[3])))

\* a / b for ints: the correctly rounded quotient ("division by zero",
\* "integer division result too large for a float")
IntTrueDiv(a, b) ==
    IF b.m = <<>> THEN ZeroDivisionError
    ELSE IF a.m = <<>> THEN Returned(PyFloat(b.s, <<>>, 0))
    ELSE With(Quotient(a.m, a.e, b.m, b.e), LAMBDA q :
         With(RoundNearest(q[1], q[2], q[3]), LAMBDA r :
         IF TooLarge(r) THEN OverflowError
         ELSE Returned(PyFloat(a.s * b.s, r[1], r[2]))))

\* With a float operand both operands are converted to float, the left one
\* first, and the float operation applies.
Floats(a, b) ==
    With(ToFloat(a), LAMBDA x :
    IF x.t # "number" THEN x
    ELSE With(ToFloat(b), LAMBDA y :
         IF y.t # "number" THEN y ELSE Returned(<<x.v, y.v>>)))

\* a + b
NumAdd(a, b) ==
    IF a.t = "int" /\ b.t = "int" THEN Returned(IntAdd(a, b))
    ELSE With(Floats(a, b), LAMBDA f :
         IF f.t # "number" THEN f ELSE Returned(FloatAdd(f.v[1], f.v[2])))

\* a - b
NumSub(a, b) ==
    IF a.t = "int" /\ b.t = "int" THEN Returned(IntAdd(a, Neg(b)))
    ELSE With(Floats(a, b), LAMBDA f :
         IF f.t # "number" THEN f ELSE Returned(FloatAdd(f.v[1], Neg(f.v[2]))))

\* a * b
NumMul(a, b) ==
    IF a.t = "int" /\ b.t = "int"
    THEN With(NatMul(a.m, b.m), LAMBDA m :
         Returned(PyInt(a.s * b.s, m, a.e + b.e)))
    ELSE With(Floats(a, b), LAMBDA f :
         IF f.t # "number" THEN f ELSE Returned(FloatMul(f.v[1], f.v[2])))

\* a / b: true division, the result always a float
NumDiv(a, b) ==
    IF a.t = "int" /\ b.t = "int" THEN IntTrueDiv(a, b)
    ELSE With(Floats(a, b), LAMBDA f :
         IF f.t # "number" THEN f ELSE FloatDiv(f.v[1], f.v[2]))

\* x <op> y of two subexpressions, each a number or the exception its
\* evaluation raised: an exception of x is the exception of the whole, then
\* one of y, then the operator applies to the two numbers.
Add(x, y) ==
    IF x.t # "number" THEN x ELSE IF y.t # "number" THEN y
    ELSE NumAdd(x.v, y.v)
Sub(x, y) ==
    IF x.t # "number" THEN x ELSE IF y.t # "number" THEN y
    ELSE NumSub(x.v, y.v)
Div(x, y) ==
    IF x.t # "number" THEN x ELSE IF y.t # "number" THEN y
    ELSE NumDiv(x.v, y.v)

\* a == b of Python: the values compared exactly, 0.0 == -0.0, and a NaN
\* equal to nothing.
NumEq(a, b) ==
    IF a.t \in {"nan", "none"} \/ b.t \in {"nan", "none"} THEN FALSE
    ELSE IF a.t = "inf" \/ b.t = "inf" THEN a.t = b.t /\ a.s = b.s
    ELSE IF a.m = <<>> \/ b.m = <<>> THEN a.m = b.m
    ELSE /\ a.s = b.s
         /\ LET e == IF a.e < b.e THEN a.e ELSE b.e
            IN  NatShl(a.m, a.e - e) = NatShl(b.m, b.e - e)

\* ------------------------------------------------------------------ inputs
\* 2^1025, an int too large for a float.
Huge == PyInt(1, <<1>>, 1025)
\* The float 2^-600, whose square underflows to 0.0.
Tiny == PyFloat(1, <<1>>, -600)
\* 2^53 + 1, an int that is no float: float() rounds it to 2^53.
Odd54 == PyInt(1, <<1, 0, 0, 256>>, 0)
\* Values given to Constant(val).
ConstVals == {Num(2), Huge}
\* Raw numeric literals used as operands of +, -, *.
Literals == {Num(1)}
\* Values a feed_dict binds to a Variable instance / to a name string.
InstVals == {Tiny}
NameVals == {Num(0), Num(3), Odd54}

\* sys.getrecursionlimit(): the deepest the interpreter's frame stack gets.
RecursionLimit == 1000
\* The frames already on the interpreter's stack where the client calls
\* eval / d: a call from the top level of a script, and a call from deep
\* inside the client's own recursion, where the limit leaves room for an
\* operator over two leaves and for no longer path.
CallerDepths == {1, RecursionLimit - 3}
\* A session that calls again and again does so as plot_function does: from
\* a list comprehension (a frame of its own) inside a function called from
\* the top level of a script, the third frame of the stack.
SessionDepths == {3}

\* ------------------------------------------------------------------- state
VARIABLES
    nodes,          \* the arena: nodes[i] is the object with identity i
    status,         \* "idle" | "running" | "done": the current call
    call,           \* the current call: [fn, root, feed_dict, depth]
    stack,          \* the call stack of _eval / _d frames, top last
    ret,            \* the value the frame popped last returned, or None
    cache_dict,     \* the call's value cache (e_cache_dict inside d)
    d_cache_dict,   \* the call's derivative cache
    result,         \* the finished call's outcome
    nEval,          \* per node: times its value arithmetic ran in this call
    nD,             \* per node: times its derivative rule ran in this call
    repeated,       \* whether the current call follows an earlier call
    steps           \* method steps taken by the current call

vars == <<nodes, status, call, stack, ret, cache_dict, d_cache_dict,
          result, nEval, nD, repeated, steps>>

BinopKinds == {"Addition", "Subtraction", "Multiplication", "Division"}

\* Expression.__init__ / Variable.__init__ / Constant.__init__ / Binop.__init__:
\* the attributes of a node object.
\* by and written are not attributes: they record the client expression
\* that allocated the object, "__init__" for a direct constructor call or
\* the overload "lhs <op> rhs" dispatched to, and its operands as written.
Node(kind, name, val, expr1, expr2, grad) ==
    [kind |-> kind, name |-> name, val |-> val,
     expr1 |-> expr1, expr2 |-> expr2, grad |-> grad,
     by |-> "__init__", written |-> <<0, 0>>]

\* Variable(name): grad defaults to True.
Variable(name) == Node("Variable", name, None, 0, 0, TRUE)
\* Constant(val): grad defaults to False.
Constant(val) == Node("Constant", "", val, 0, 0, FALSE)
\* Binop.__init__(expr1, expr2, grad) for the four subclasses.
Binop(kind, expr1, expr2, grad) == Node(kind, "", None, expr1, expr2, grad)

Ids == 1..Len(nodes)
IsBinop(n) == nodes[n].kind \in BinopKinds

\* Every node a node refers to was allocated before it.
RECURSIVE Reach(_)
Reach(n) ==
    IF IsBinop(n) THEN {n} \cup Reach(nodes[n].expr1) \cup Reach(nodes[n].expr2)
    ELSE {n}

ReachVars(n) == {v \in Reach(n) : nodes[v].kind = "Variable"}

\* ------------------------------------------------------------ construction
\* A session builds its graph first and then evaluates it: nodes are never
\* changed once built, so a later allocation cannot affect an earlier node.
CanBuild(k) == status = "idle" /\ Len(nodes) + k <= MaxNodes

BuildFrame == UNCHANGED <<status, call, stack, ret, cache_dict, d_cache_dict,
                          result, nEval, nD, repeated, steps>>

NewVariable(name) ==
    /\ CanBuild(1)
    /\ nodes' = Append(nodes, Variable(name))
    /\ BuildFrame

NewConstant(val) ==
    /\ CanBuild(1)
    /\ nodes' = Append(nodes, Constant(val))
    /\ BuildFrame

\* grad=(other.grad and self.grad), the try branch of every operator.
ComposedGrad(self, other) == nodes[other].grad /\ nodes[self].grad
\* grad=self.grad, the except AttributeError branch (other is a raw literal).
CoercedGrad(self) == nodes[self].grad

\* Mutant of OperandsRSub: __rsub__ building Subtraction(self, other).
OperandsRSubUnswapped(self, other) == <<self, other>>

\* The operands (expr1, expr2) each overload hands to the Binop constructor.
OperandsSub(self, other) == <<self, other>>
OperandsRSub(self, other) == <<other, self>>

\* self <op> other, both expressions: one new Binop node.
Compose(by, kind, operands, grad, written) ==
    Append(nodes, [Binop(kind, operands[1], operands[2], grad)
                     EXCEPT !.by = by, !.written = written])

\* The identity the next allocated object gets.
NextId == Len(nodes) + 1

\* An operator with a raw literal: Constant(other) is allocated (it gets
\* NextId, which operands and written name), then the Binop node with
\* grad=self.grad.
Coerce(by, kind, self, other, operands, written) ==
    Append(Append(nodes, [Constant(other) EXCEPT !.by = by]),
           [Binop(kind, operands[1], operands[2], CoercedGrad(self))
              EXCEPT !.by = by, !.written = written])

\* Expression.__add__(self, other), other an expression.
OpAdd(self, other) ==
    /\ CanBuild(1)
    /\ nodes' = Compose("__add__", "Addition", <<self, other>>,
                        ComposedGrad(self, other), <<self, other>>)
    /\ BuildFrame

\* Expression.__add__(self, other), other a raw literal: self + other.
OpAddLiteral(self, other) ==
    /\ CanBuild(2)
    /\ nodes' = Coerce("__add__", "Addition", self, other,
                       <<self, NextId>>, <<self, NextId>>)
    /\ BuildFrame

\* Expression.__radd__: other + self is self.__add__(other).
OpRAddLiteral(self, other) ==
    /\ CanBuild(2)
    /\ nodes' = Coerce("__radd__", "Addition", self, other,
                       <<self, NextId>>, <<NextId, self>>)
    /\ BuildFrame

\* Expression.__sub__(self, other), other an expression.
OpSub(self, other) ==
    /\ CanBuild(1)
    /\ nodes' = Compose("__sub__", "Subtraction", OperandsSub(self, other),
                        ComposedGrad(self, other), <<self, other>>)
    /\ BuildFrame

\* Expression.__sub__(self, other), other a raw literal: self - other.
OpSubLiteral(self, other) ==
    /\ CanBuild(2)
    /\ nodes' = Coerce("__sub__", "Subtraction", self, other,
                       OperandsSub(self, NextId), <<self, NextId>>)
    /\ BuildFrame

\* Expression.__rsub__(self, other): other - self, other a raw literal.
OpRSubLiteral(self, other) ==
    /\ CanBuild(2)
    /\ nodes' = Coerce("__rsub__", "Subtraction", self, other,
                       OperandsRSub(self, NextId), <<NextId, self>>)
    /\ BuildFrame

\* Expression.__mul__(self, other), other an expression.
OpMul(self, other) ==
    /\ CanBuild(1)
    /\ nodes' = Compose("__mul__", "Multiplication", <<self, other>>,
                        ComposedGrad(self, other), <<self, other>>)
    /\ BuildFrame

\* Expression.__mul__(self, other), other a raw literal: self * other.
OpMulLiteral(self, other) ==
    /\ CanBuild(2)
    /\ nodes' = Coerce("__mul__", "Multiplication", self, other,
                       <<self, NextId>>, <<self, NextId>>)
    /\ BuildFrame

\* Expression.__rmul__: other * self is self.__mul__(other).
OpRMulLiteral(self, other) ==
    /\ CanBuild(2)
    /\ nodes' = Coerce("__rmul__", "Multiplication", self, other,
                       <<self, NextId>>, <<NextId, self>>)
    /\ BuildFrame

\* Division has no operator overload: Division(expr1, expr2), grad=False.
NewDivision(expr1, expr2) ==
    /\ CanBuild(1)
    /\ nodes' = Append(nodes, [Binop("Division", expr1, expr2, FALSE)
                                 EXCEPT !.written = <<expr1, expr2>>])
    /\ BuildFrame

Build ==
  /\ status = "idle"
  /\
    \/ \E name \in VarNames : NewVariable(name)
    \/ \E val \in ConstVals : NewConstant(val)
    \/ \E self \in Ids, other \in Ids :
          \/ OpAdd(self, other)
          \/ OpSub(self, other)
          \/ OpMul(self, other)
          \/ NewDivision(self, other)
    \/ \E self \in Ids, other \in Literals :
          \/ OpAddLiteral(self, other)
          \/ OpRAddLiteral(self, other)
          \/ OpSubLiteral(self, other)
          \/ OpRSubLiteral(self, other)
          \/ OpMulLiteral(self, other)
          \/ OpRMulLiteral(self, other)

\* ------------------------------------------------------------------- calls
\* A feed_dict: inst maps Variable objects (identities) to values, name maps
\* name strings to values.  Keys no reachable Variable looks up are left out.
ReachNames(n) == {nodes[v].name : v \in ReachVars(n)}

FeedDicts(root) ==
    {[inst |-> f, name |-> g] :
        f \in UNION {[S -> InstVals] : S \in SUBSET ReachVars(root)},
        g \in UNION {[T -> NameVals] : T \in SUBSET ReachNames(root)}}

\* The session calls eval / d on the expression it built: the node built
\* last, once every node of the arena is part of it.  Any DAG is built this
\* way, its root last.
Roots == {r \in Ids : r = Len(nodes) /\ Reach(r) = Ids}

\* dict(): the fresh cache each eval / d call passes down.
EmptyDict == [n \in {} |-> None]

\* One invocation of node._eval or node._d: its locals and where it stands.
Frame(node, fn) ==
    [node |-> node, fn |-> fn, pc |-> "enter",
     res1 |-> None, res2 |-> None, d1 |-> None, d2 |-> None]

Top == stack[Len(stack)]
Running(fn, kind) ==
    /\ status = "running"
    /\ Top.fn = fn
    /\ nodes[Top.node].kind = kind

ZeroCounts == [n \in Ids |-> 0]

\* Mutant of EvalCache: eval reusing the dict of the call before.
EvalCacheKept == cache_dict

\* The dict() eval passes to _eval as cache_dict.
EvalCache == EmptyDict
\* The two dict() d passes to _d as e_cache_dict and d_cache_dict.
DValueCache == EmptyDict
DDerivCache == EmptyDict

\* The client's call of eval or d, made with depth frames on the
\* interpreter's stack, starts the root's method in a frame of its own above
\* the frame of eval or d, or raises RecursionError when the two frames are
\* more than the recursion limit leaves room for.
Enter(root, fn, depth) ==
    IF depth + 2 > RecursionLimit
    THEN /\ status' = "done"
         /\ stack' = <<>>
         /\ result' = RecursionError
    ELSE /\ status' = "running"
         /\ stack' = <<Frame(root, fn)>>
         /\ result' = NoResult

\* Expression.eval(feed_dict): return self._eval(feed_dict, dict())
Eval(root, feed_dict, depth) ==
    /\ status # "running"
    /\ call' = [fn |-> "eval", root |-> root, feed_dict |-> feed_dict,
                depth |-> depth]
    /\ Enter(root, "_eval", depth)
    /\ cache_dict' = EvalCache
    /\ d_cache_dict' = EmptyDict
    /\ ret' = None
    /\ nEval' = ZeroCounts
    /\ nD' = ZeroCounts
    /\ repeated' = (status = "done")
    /\ steps' = 0
    /\ UNCHANGED nodes

\* Expression.d(feed_dict): return self._d(feed_dict, dict(), dict())
D(root, feed_dict, depth) ==
    /\ status # "running"
    /\ call' = [fn |-> "d", root |-> root, feed_dict |-> feed_dict,
                depth |-> depth]
    /\ Enter(root, "_d", depth)
    /\ cache_dict' = DValueCache
    /\ d_cache_dict' = DDerivCache
    /\ ret' = None
    /\ nEval' = ZeroCounts
    /\ nD' = ZeroCounts
    /\ repeated' = (status = "done")
    /\ steps' = 0
    /\ UNCHANGED nodes

\* "return v" of the top frame: the caller gets v, or the call is finished.
Return(v) ==
  /\ steps' = steps + 1
  /\
    IF Len(stack) = 1
    THEN /\ status' = "done"
         /\ result' = Returned(v)
         /\ stack' = <<>>
         /\ ret' = None
    ELSE /\ stack' = SubSeq(stack, 1, Len(stack) - 1)
         /\ ret' = v
         /\ UNCHANGED <<status, result>>

\* An exception: no frame of ad.py catches it, the whole call is aborted.
Raise(e) ==
    /\ steps' = steps + 1
    /\ status' = "done"
    /\ result' = e
    /\ stack' = <<>>
    /\ ret' = None

\* The frames on the interpreter's stack: the caller's, the frame of eval or
\* d, and the _eval / _d frames.
Depth == call.depth + 1 + Len(stack)

\* A call of a builtin or of an exception class, id(self) or ValueError(...),
\* takes one level of the recursion limit above the frame that makes it: in
\* a frame that stands at the limit it raises RecursionError.
AtLimit == Depth + 1 > RecursionLimit

\* Mutant of Invoke: the caller does not move on, and makes the call again
\* when the callee returns.
InvokeAgain(locals, pc, child, fn) ==
    IF AtLimit
    THEN Raise(RecursionError)
    ELSE /\ stack' = Append(SubSeq(stack, 1, Len(stack) - 1) \o
                            <<[locals EXCEPT !.pc = "enter"]>>, Frame(child, fn))
         /\ ret' = None
         /\ steps' = steps + 1
         /\ UNCHANGED <<status, result>>

\* The top frame calls child.fn(...): it moves to pc and the callee starts,
\* unless its frame would be one more than the recursion limit allows, when
\* the call raises RecursionError instead.
Invoke(locals, pc, child, fn) ==
    IF AtLimit
    THEN Raise(RecursionError)
    ELSE /\ stack' = Append(SubSeq(stack, 1, Len(stack) - 1) \o
                            <<[locals EXCEPT !.pc = pc]>>, Frame(child, fn))
         /\ ret' = None
         /\ steps' = steps + 1
         /\ UNCHANGED <<status, result>>

\* Mutant of Lookup: the name first, then the instance.
LookupNameFirst(v, feed_dict) ==
    IF nodes[v].name \in DOMAIN feed_dict.name
    THEN Returned(feed_dict.name[nodes[v].name])
    ELSE IF v \in DOMAIN feed_dict.inst THEN Returned(feed_dict.inst[v])
         ELSE UnboundVariable(nodes[v].name)

\* Mutant of Lookup: an absent variable reads as 0 instead of raising.
LookupDefault(v, feed_dict) ==
    IF v \in DOMAIN feed_dict.inst THEN Returned(feed_dict.inst[v])
    ELSE IF nodes[v].name \in DOMAIN feed_dict.name
         THEN Returned(feed_dict.name[nodes[v].name])
         ELSE Returned(Num(0))

\* Variable._eval's lookup: the instance first, then the name.
Lookup(v, feed_dict) ==
    IF v \in DOMAIN feed_dict.inst THEN Returned(feed_dict.inst[v])
    ELSE IF nodes[v].name \in DOMAIN feed_dict.name
         THEN Returned(feed_dict.name[nodes[v].name])
         ELSE UnboundVariable(nodes[v].name)

\* Variable._eval
VariableEval ==
    /\ Running("_eval", "Variable")
    /\ \E r \in {Lookup(Top.node, call.feed_dict)} :
          IF r.t = "number" THEN Return(r.v)
          ELSE IF AtLimit THEN Raise(RecursionError)
          ELSE Raise(r)
    /\ UNCHANGED <<nodes, call, cache_dict, d_cache_dict, nEval, nD, repeated>>

\* Variable._d: return 1.0
VariableD ==
    /\ Running("_d", "Variable")
    /\ \E one \in {PyFloat(1, <<1>>, 0)} : Return(one)
    /\ UNCHANGED <<nodes, call, cache_dict, d_cache_dict, nEval, nD, repeated>>

\* Constant._eval: return self.val
ConstantEval ==
    /\ Running("_eval", "Constant")
    /\ Return(nodes[Top.node].val)
    /\ UNCHANGED <<nodes, call, cache_dict, d_cache_dict, nEval, nD, repeated>>

\* Constant._d: return 0
ConstantD ==
    /\ Running("_d", "Constant")
    /\ \E zero \in {Num(0)} : Return(zero)
    /\ UNCHANGED <<nodes, call, cache_dict, d_cache_dict, nEval, nD, repeated>>

\* Mutant of Cached: the cache is never consulted.
NeverCached(n, cache) == FALSE

\* id(self) in cache_dict
Cached(n, cache) == n \in DOMAIN cache
\* cache_dict[id(self)] = v
Store(cache, n, v) == [k \in DOMAIN cache \cup {n} |-> IF k = n THEN v ELSE cache[k]]

\* Mutant of Arith: Subtraction._eval computing res2 - res1.
ArithSwapped(kind, res1, res2) ==
    CASE kind = "Addition" -> NumAdd(res1, res2)
      [] kind = "Subtraction" -> NumSub(res2, res1)
      [] kind = "Multiplication" -> NumMul(res1, res2)
      [] kind = "Division" -> NumDiv(res1, res2)

\* res1 <op> res2 of the four _eval methods: the number, or the exception
\* the operator raises.
Arith(kind, res1, res2) ==
    CASE kind = "Addition" -> NumAdd(res1, res2)
      [] kind = "Subtraction" -> NumSub(res1, res2)
      [] kind = "Multiplication" -> NumMul(res1, res2)
      [] kind = "Division" -> NumDiv(res1, res2)

\* Addition._eval, Subtraction._eval, Multiplication._eval, Division._eval:
\*   if id(self) not in cache_dict:
\*       res1 = self.expr1._eval(feed_dict, cache_dict)
\*       res2 = self.expr2._eval(feed_dict, cache_dict)
\*       cache_dict[id(self)] = res1 <op> res2
\*   return cache_dict[id(self)]
BinopEval(kind) ==
    /\ Running("_eval", kind)
    /\ LET f == Top
           n == Top.node
       IN  CASE f.pc = "enter" ->
                  /\ IF AtLimit THEN Raise(RecursionError)
                     ELSE IF Cached(n, cache_dict)
                     THEN Return(cache_dict[n])
                     ELSE Invoke(f, "res1", nodes[n].expr1, "_eval")
                  /\ UNCHANGED <<cache_dict, nEval>>
             [] f.pc = "res1" ->
                  /\ Invoke([f EXCEPT !.res1 = ret], "res2", nodes[n].expr2, "_eval")
                  /\ UNCHANGED <<cache_dict, nEval>>
             [] f.pc = "res2" ->
                  \E r \in {Arith(kind, f.res1, ret)} :
                      /\ nEval' = [nEval EXCEPT ![n] = @ + 1]
                      /\ IF r.t = "number"
                         THEN /\ cache_dict' = Store(cache_dict, n, r.v)
                              /\ Return(r.v)
                         ELSE /\ Raise(r)
                              /\ UNCHANGED cache_dict
    /\ UNCHANGED <<nodes, call, d_cache_dict, nD, repeated>>

AdditionEval == BinopEval("Addition")
SubtractionEval == BinopEval("Subtraction")
MultiplicationEval == BinopEval("Multiplication")
DivisionEval == BinopEval("Division")

\* d1 + d2 (Addition._d) and d1 - d2 (Subtraction._d)
AddRule(d1, d2) == NumAdd(d1, d2)
SubRule(d1, d2) == NumSub(d1, d2)
\* Mutant of MulRule: res1 * d1 + res2 * d2.
MulRuleUncrossed(d1, d2, res1, res2) ==
    With(NumMul(res1, d1), LAMBDA l :
    With(NumMul(res2, d2), LAMBDA r : Add(l, r)))

\* res1 * d2 + res2 * d1 (Multiplication._d)
MulRule(d1, d2, res1, res2) ==
    With(NumMul(res1, d2), LAMBDA l :
    With(NumMul(res2, d1), LAMBDA r : Add(l, r)))
\* (d1 / res2) - (d2 * res1 / (res2 * res2)) (Division._d): five operations
\* in Python's order, each rounding or raising by itself; the second "/"
\* divides by the product res2 * res2.
DivRule(d1, d2, res1, res2) ==
    With(NumDiv(d1, res2), LAMBDA l :
    With(NumMul(d2, res1), LAMBDA n :
    With(NumMul(res2, res2), LAMBDA d :
    With(Div(n, d), LAMBDA r : Sub(l, r)))))

\* Addition._d, Subtraction._d:
\*   if id(self) not in d_cache_dict:
\*       d1 = self.expr1._d(feed_dict, e_cache_dict, d_cache_dict)
\*       d2 = self.expr2._d(feed_dict, e_cache_dict, d_cache_dict)
\*       d_cache_dict[id(self)] = d1 <op> d2
\*   return d_cache_dict[id(self)]
LinearD(kind) ==
    /\ Running("_d", kind)
    /\ LET f == Top
           n == Top.node
       IN  CASE f.pc = "enter" ->
                  /\ IF AtLimit THEN Raise(RecursionError)
                     ELSE IF Cached(n, d_cache_dict)
                     THEN Return(d_cache_dict[n])
                     ELSE Invoke(f, "d1", nodes[n].expr1, "_d")
                  /\ UNCHANGED <<d_cache_dict, nD>>
             [] f.pc = "d1" ->
                  /\ Invoke([f EXCEPT !.d1 = ret], "d2", nodes[n].expr2, "_d")
                  /\ UNCHANGED <<d_cache_dict, nD>>
             [] f.pc = "d2" ->
                  \E r \in {IF kind = "Addition" THEN AddRule(f.d1, ret)
                            ELSE SubRule(f.d1, ret)} :
                      /\ nD' = [nD EXCEPT ![n] = @ + 1]
                      /\ IF r.t = "number"
                         THEN /\ d_cache_dict' = Store(d_cache_dict, n, r.v)
                              /\ Return(r.v)
                         ELSE /\ Raise(r)
                              /\ UNCHANGED d_cache_dict
    /\ UNCHANGED <<nodes, call, cache_dict, nEval, repeated>>

AdditionD == LinearD("Addition")
SubtractionD == LinearD("Subtraction")

\* Multiplication._d, Division._d:
\*   if id(self) not in d_cache_dict:
\*       d1 = self.expr1._d(feed_dict, e_cache_dict, d_cache_dict)
\*       d2 = self.expr2._d(feed_dict, e_cache_dict, d_cache_dict)
\*       res1 = self.expr1._eval(feed_dict, e_cache_dict)
\*       res2 = self.expr2._eval(feed_dict, e_cache_dict)
\*       d_cache_dict[id(self)] = <rule>
\*   return d_cache_dict[id(self)]
ProductD(kind) ==
    /\ Running("_d", kind)
    /\ LET f == Top
           n == Top.node
       IN  CASE f.pc = "enter" ->
                  /\ IF AtLimit THEN Raise(RecursionError)
                     ELSE IF Cached(n, d_cache_dict)
                     THEN Return(d_cache_dict[n])
                     ELSE Invoke(f, "d1", nodes[n].expr1, "_d")
                  /\ UNCHANGED <<d_cache_dict, nD>>
             [] f.pc = "d1" ->
                  /\ Invoke([f EXCEPT !.d1 = ret], "d2", nodes[n].expr2, "_d")
                  /\ UNCHANGED <<d_cache_dict, nD>>
             [] f.pc = "d2" ->
                  /\ Invoke([f EXCEPT !.d2 = ret], "res1", nodes[n].expr1, "_eval")
                  /\ UNCHANGED <<d_cache_dict, nD>>
             [] f.pc = "res1" ->
                  /\ Invoke([f EXCEPT !.res1 = ret], "res2", nodes[n].expr2, "_eval")
                  /\ UNCHANGED <<d_cache_dict, nD>>
             [] f.pc = "res2" ->
                  \E r \in {IF kind = "Multiplication"
                            THEN MulRule(f.d1, f.d2, f.res1, ret)
                            ELSE DivRule(f.d1, f.d2, f.res1, ret)} :
                      /\ nD' = [nD EXCEPT ![n] = @ + 1]
                      /\ IF r.t = "number"
                         THEN /\ d_cache_dict' = Store(d_cache_dict, n, r.v)
                              /\ Return(r.v)
                         ELSE /\ Raise(r)
                              /\ UNCHANGED d_cache_dict
    /\ UNCHANGED <<nodes, call, cache_dict, nEval, repeated>>

MultiplicationD == ProductD("Multiplication")
DivisionD == ProductD("Division")

\* ----------------------------------------------------------- specification
NoCall == [fn |-> "none", root |-> 0,
           feed_dict |-> [inst |-> EmptyDict, name |-> EmptyDict], depth |-> 0]

Init ==
    /\ nodes = <<>>
    /\ status = "idle"
    /\ call = NoCall
    /\ stack = <<>>
    /\ ret = None
    /\ cache_dict = EmptyDict
    /\ d_cache_dict = EmptyDict
    /\ result = NoResult
    /\ nEval = <<>>
    /\ nD = <<>>
    /\ repeated = FALSE
    /\ steps = 0

Step ==
    \/ VariableEval
    \/ VariableD
    \/ ConstantEval
    \/ ConstantD
    \/ AdditionEval
    \/ SubtractionEval
    \/ MultiplicationEval
    \/ DivisionEval
    \/ AdditionD
    \/ SubtractionD
    \/ MultiplicationD
    \/ DivisionD

\* The client's first eval or d call on the expression it built.
FirstCall ==
    /\ status = "idle"
    /\ \E root \in Roots : \E feed_dict \in FeedDicts(root) :
       \E depth \in CallerDepths :
          \/ Eval(root, feed_dict, depth)
          \/ D(root, feed_dict, depth)

\* Any eval or d call, the first or one that follows a finished call.
AnyCall ==
    /\ status # "running"
    /\ \E root \in Roots : \E feed_dict \in FeedDicts(root) :
       \E depth \in SessionDepths :
          \/ Eval(root, feed_dict, depth)
          \/ D(root, feed_dict, depth)

\* A session that builds an expression and calls eval or d on it once.
Next ==
    \/ Build
    \/ FirstCall
    \/ Step

Spec == Init /\ [][Next]_vars

\* A session that goes on calling eval and d, with any feed_dicts.
NextSeq ==
    \/ Build
    \/ AnyCall
    \/ Step

SeqSpec == Init /\ [][NextSeq]_vars

\* The interpreter keeps executing a call it started: a step that stays
\* possible is eventually taken.
FairSpec == Spec /\ WF_vars(Step)

\* ---------------------------------------------------- reference semantics
\* What the claims compare the program with: the value and the forward
\* derivative of a node by plain structural recursion, with no cache and no
\* limit on its depth, in Python's arithmetic.  An exception of a
\* subexpression is the exception of the whole, operands left to right.
Resolvable(v, fd) == v \in DOMAIN fd.inst \/ nodes[v].name \in DOMAIN fd.name
Unresolved(root, fd) == {v \in ReachVars(root) : ~Resolvable(v, fd)}
Resolves(root, fd) == Unresolved(root, fd) = {}
Bound(v, fd) ==
    IF v \in DOMAIN fd.inst THEN fd.inst[v] ELSE fd.name[nodes[v].name]

RECURSIVE Val(_, _)
Val(n, fd) ==
    LET nd == nodes[n]
    IN  IF nd.kind = "Variable"
        THEN IF Resolvable(n, fd) THEN Returned(Bound(n, fd))
             ELSE UnboundVariable(nd.name)
        ELSE IF nd.kind = "Constant" THEN Returned(nd.val)
        ELSE LET l == Val(nd.expr1, fd)
             IN  IF l.t # "number" THEN l
                 ELSE LET r == Val(nd.expr2, fd)
                      IN  IF r.t # "number" THEN r
                          ELSE CASE nd.kind = "Addition" -> NumAdd(l.v, r.v)
                                 [] nd.kind = "Subtraction" -> NumSub(l.v, r.v)
                                 [] nd.kind = "Multiplication" -> NumMul(l.v, r.v)
                                 [] nd.kind = "Division" -> NumDiv(l.v, r.v)

\* Variable -> 1, Constant -> 0, Add -> d(l)+d(r), Sub -> d(l)-d(r),
\* Mul -> val(l)*d(r)+val(r)*d(l), Div -> d(l)/val(r) - d(r)*val(l)/val(r)^2
RECURSIVE Der(_, _)
Der(n, fd) ==
    LET nd == nodes[n]
    IN  IF nd.kind = "Variable" THEN Returned(PyFloat(1, <<1>>, 0))
        ELSE IF nd.kind = "Constant" THEN Returned(Num(0))
        ELSE
          LET dl == Der(nd.expr1, fd)
              dr == Der(nd.expr2, fd)
              vl == Val(nd.expr1, fd)
              vr == Val(nd.expr2, fd)
          IN  IF dl.t # "number" THEN dl
              ELSE IF dr.t # "number" THEN dr
              ELSE IF nd.kind = "Addition" THEN NumAdd(dl.v, dr.v)
              ELSE IF nd.kind = "Subtraction" THEN NumSub(dl.v, dr.v)
              ELSE IF vl.t # "number" THEN vl
              ELSE IF vr.t # "number" THEN vr
              ELSE IF nd.kind = "Multiplication"
                   THEN Add(NumMul(vl.v, dr.v), NumMul(vr.v, dl.v))
              ELSE Sub(NumDiv(dl.v, vr.v),
                       Div(NumMul(dr.v, vl.v), NumMul(vr.v, vr.v)))

Done(fn) == status = "done" /\ call.fn = fn
Failed == result.t \in {"UnboundVariable", "ZeroDivisionError",
                        "OverflowError", "RecursionError"}
IsVar(n) == nodes[n].kind = "Variable"
IsConst(n) == nodes[n].kind = "Constant"
ReachBinops(root) == {n \in Reach(root) : IsBinop(n)}
\* The exception the arithmetic of node n itself raises on the values of its
\* operands ("none" when it raises none or has no operand values).
OwnFault(n, fd) ==
    IF /\ Val(nodes[n].expr1, fd).t = "number"
       /\ Val(nodes[n].expr2, fd).t = "number"
       /\ Val(n, fd).t # "number"
    THEN Val(n, fd).t ELSE "none"
\* The arithmetic exceptions of the nodes under root: the ZeroDivisionError
\* of a division by zero, the OverflowError of an int too large for a float.
Faults(root, fd) == {OwnFault(n, fd) : n \in ReachBinops(root)} \ {"none"}

\* The nodes on the longest path from n down to a leaf.
RECURSIVE Height(_)
Height(n) ==
    IF IsBinop(n)
    THEN LET h1 == Height(nodes[n].expr1)
             h2 == Height(nodes[n].expr2)
         IN  1 + (IF h1 > h2 THEN h1 ELSE h2)
    ELSE 1
\* The levels the recursion limit leaves above the frame of eval or d in the
\* current call, and whether some path of the graph needs more of them: a
\* level for the frame of each of its nodes, and the level that a builtin
\* call made in the last of these frames takes.
Headroom == RecursionLimit - call.depth - 1
TooDeep == Height(call.root) + 1 > Headroom

\* The root has the same binary-operator node as both operands.
SharedOperand(root) ==
    /\ IsBinop(root)
    /\ nodes[root].expr1 = nodes[root].expr2
    /\ IsBinop(nodes[root].expr1)

\* r is the outcome ref, a number compared as Python's == compares.
SameOutcome(r, ref) ==
    IF r.t = "number" /\ ref.t = "number" THEN NumEq(r.v, ref.v) ELSE r = ref

\* ------------------------------------------------------------------ claims

\* C1 as stated: for every expression DAG and every feed_dict that resolves
\* all the reachable variables, eval returns what the un-memoized structural
\* recursion returns (a shared subexpression counts as if it were copied).
C1_AsStated ==
    (Done("eval") /\ Resolves(call.root, call.feed_dict))
        => result = Val(call.root, call.feed_dict)

\* C1 amended: under a feed_dict that resolves all the reachable variables,
\* eval returns what the un-memoized structural recursion returns, number
\* or arithmetic exception, unless it raises RecursionError, which it does
\* only for a graph with a path longer than the frames the interpreter's
\* stack has left.
C1_EvalIsStructuralWithinDepth ==
    (Done("eval") /\ Resolves(call.root, call.feed_dict))
        => IF result = RecursionError THEN TooDeep
           ELSE result = Val(call.root, call.feed_dict)

\* An eval returned a number for a root whose two operands are one shared
\* binary-operator node.
C1_Witness ==
    /\ Done("eval")
    /\ result.t = "number"
    /\ SharedOperand(call.root)
    /\ ReachVars(call.root) # {}

\* The closed forms of the derivative for a d call that ended with outcome
\* r: d(x) = 1, d(k) = 0, d(x + x) = 2, d(x * x) = 2v, d(k / x) = -k / v^2,
\* and for two variables d(x * y) = val(y) + val(x).
ClosedForms(r) ==
    LET fd == call.feed_dict
        root == nodes[call.root]
        l == root.expr1
    IN  /\ root.kind = "Variable" => SameOutcome(r, Returned(Num(1)))
        /\ root.kind = "Constant" => SameOutcome(r, Returned(Num(0)))
        /\ (root.kind = "Addition" /\ IsVar(l) /\ root.expr2 = l)
              => SameOutcome(r, Returned(Num(2)))
        /\ (root.kind = "Multiplication" /\ IsVar(l) /\ root.expr2 = l)
              => SameOutcome(r, NumMul(Num(2), Bound(l, fd)))
        /\ (root.kind = "Multiplication" /\ IsVar(l) /\ IsVar(root.expr2))
              => SameOutcome(r, NumAdd(Bound(root.expr2, fd), Bound(l, fd)))
        /\ (root.kind = "Division" /\ IsConst(l) /\ IsVar(root.expr2))
              => LET v == Bound(root.expr2, fd)
                 IN  SameOutcome(r, Div(Returned(Neg(nodes[l].val)),
                                        NumMul(v, v)))

\* C2 as stated: for every feed_dict that resolves all the variables, d
\* returns the reference forward derivative, and the named instances hold.
C2_AsStated ==
    (Done("d") /\ Resolves(call.root, call.feed_dict)) =>
        /\ result = Der(call.root, call.feed_dict)
        /\ ClosedForms(result)

\* The closed forms as the float arithmetic of the rules gives them, a
\* value that the rule multiplies by the float derivative of a Variable
\* taken as float(value): d(x) = 1, d(k) = 0, d(x + x) = 2,
\* d(x * x) = float(v) + float(v), d(x * y) = float(val(x)) + float(val(y)),
\* d(k / x) = -float(k) / (v * v).
ClosedFormsInFloats(r) ==
    LET fd == call.feed_dict
        root == nodes[call.root]
        l == root.expr1
    IN  /\ root.kind = "Variable" => SameOutcome(r, Returned(Num(1)))
        /\ root.kind = "Constant" => SameOutcome(r, Returned(Num(0)))
        /\ (root.kind = "Addition" /\ IsVar(l) /\ root.expr2 = l)
              => SameOutcome(r, Returned(Num(2)))
        /\ (root.kind = "Multiplication" /\ IsVar(l) /\ IsVar(root.expr2))
              => SameOutcome(r, Add(ToFloat(Bound(l, fd)),
                                    ToFloat(Bound(root.expr2, fd))))
        /\ (root.kind = "Division" /\ IsConst(l) /\ IsVar(root.expr2))
              => LET v == Bound(root.expr2, fd)
                 IN  SameOutcome(r, Div(ToFloat(Neg(nodes[l].val)),
                                        NumMul(v, v)))

\* C2 amended: under a feed_dict that resolves all the variables, d ends as
\* the reference forward derivative computed in Python's arithmetic ends,
\* with its number or with its exception, unless it raises RecursionError,
\* which it does only for a graph with a path too long for the recursion
\* limit; and whenever d returns a number, the number is the closed form
\* of the named instances as float arithmetic gives it.
C2_DIsForwardDerivativeWithinDepth ==
    (Done("d") /\ Resolves(call.root, call.feed_dict)) =>
        IF result = RecursionError THEN TooDeep
        ELSE /\ result = Der(call.root, call.feed_dict)
             /\ result.t = "number" => ClosedFormsInFloats(result)

\* d(x * x) at x = 2^53 + 1 returned the float 2^54, which is not 2v.
C2_Witness ==
    /\ Done("d")
    /\ nodes[call.root].kind = "Multiplication"
    /\ IsVar(nodes[call.root].expr1)
    /\ nodes[call.root].expr2 = nodes[call.root].expr1
    /\ Resolves(call.root, call.feed_dict)
    /\ Bound(nodes[call.root].expr1, call.feed_dict) = Odd54
    /\ result = Returned(PyFloat(1, <<1>>, 54))
    /\ ~NumEq(result.v, NumMul(Num(2), Odd54).v)

\* C3: a subtraction of constants written lhs - rhs, by __sub__ on two
\* Constant nodes, by __sub__ with a raw literal on the right or by __rsub__
\* with a raw literal on the left, evaluates to value(lhs) - value(rhs).
C3_SubtractionKeepsOrder ==
    LET r == nodes[call.root]
    IN  (/\ Done("eval")
         /\ r.by \in {"__sub__", "__rsub__"}
         /\ IsConst(r.expr1)
         /\ IsConst(r.expr2))
        => result = NumSub(nodes[r.written[1]].val, nodes[r.written[2]].val)

\* 1 - Constant(2) evaluated to -1.
C3_Witness ==
    /\ Done("eval")
    /\ nodes[call.root].by = "__rsub__"
    /\ IsConst(nodes[call.root].expr1)
    /\ IsConst(nodes[call.root].expr2)
    /\ result = Returned(Num(-1))

\* C4 as stated: eval fails with the unbound-variable error, naming an
\* unresolved variable, whenever a reachable Variable is unresolvable, and
\* returns a number whenever every reachable Variable is resolvable.
C4_AsStated ==
    Done("eval") =>
        LET u == Unresolved(call.root, call.feed_dict)
        IN  /\ u # {} => /\ result.t = "UnboundVariable"
                         /\ result.name \in {nodes[v].name : v \in u}
            /\ u = {} => result.t = "number"

\* C4 amended: eval fails whenever a reachable Variable is unresolvable.  It
\* returns a number when every reachable Variable is resolvable, no
\* reachable operator raises on the values of its operands and no path of
\* the graph is longer than the stack has room for; it fails when every
\* Variable is resolvable and some reachable operator raises.  An
\* unbound-variable error names an unresolved reachable variable, a
\* ZeroDivisionError or OverflowError is the one a reachable operator raises
\* on its operands' values, a RecursionError comes with a path too long, and
\* a failed call returns no number.
C4_EvalFailsIffUnresolvedOrFault ==
    Done("eval") =>
        LET fd == call.feed_dict
            u == Unresolved(call.root, fd)
        IN  /\ u # {} => Failed
            /\ result.t = "UnboundVariable"
                  => result.name \in {nodes[v].name : v \in u}
            /\ result.t \in {"ZeroDivisionError", "OverflowError"}
                  => result.t \in Faults(call.root, fd)
            /\ result.t = "RecursionError" => TooDeep
            /\ (u = {} /\ Faults(call.root, fd) = {} /\ ~TooDeep)
                  => result.t = "number"
            /\ (u = {} /\ Faults(call.root, fd) # {}) => Failed
            /\ result.t = "number" \/ Failed
            /\ Failed => (result.v = None /\ stack = <<>> /\ ret = None)

\* An eval of a binary operator failed on an unresolved variable although
\* the other variable under it was resolvable.
C4_Witness ==
    /\ Done("eval")
    /\ IsBinop(call.root)
    /\ result.t = "UnboundVariable"
    /\ \E v \in ReachVars(call.root) : Resolvable(v, call.feed_dict)

\* C5: d fails with the unbound-variable error whenever a reachable
\* Variable is neither a key of the feed_dict nor is its name.
C5_DFailsOnUnresolved ==
    (Done("d") /\ ~Resolves(call.root, call.feed_dict))
        => /\ result.t = "UnboundVariable"
           /\ result.name \in {nodes[v].name :
                                  v \in Unresolved(call.root, call.feed_dict)}

\* C6: a call that follows earlier calls of the session, with whatever
\* feed_dicts, starts from empty caches and returns what it would return as
\* the only call: the value or derivative under its own feed_dict, with
\* caches that hold only values and derivatives under its own feed_dict.
C6_NoCacheLeak ==
    /\ (status = "running" /\ steps = 0)
          => (cache_dict = EmptyDict /\ d_cache_dict = EmptyDict)
    /\ (status = "done" /\ repeated) =>
          result = IF call.fn = "eval" THEN Val(call.root, call.feed_dict)
                   ELSE Der(call.root, call.feed_dict)
    /\ (status = "done" /\ repeated) =>
          /\ \A n \in DOMAIN cache_dict :
                Returned(cache_dict[n]) = Val(n, call.feed_dict)
          /\ \A n \in DOMAIN d_cache_dict :
                Returned(d_cache_dict[n]) = Der(n, call.feed_dict)

\* A repeated eval of a binary operator over a variable returned a number.
C6_Witness ==
    /\ Done("eval")
    /\ repeated
    /\ IsBinop(call.root)
    /\ ReachVars(call.root) # {}
    /\ result.t = "number"

\* C7 as stated: in an eval call every reachable binary-operator node has
\* its arithmetic performed exactly once.
C7_AsStated ==
    Done("eval") => \A n \in ReachBinops(call.root) : nEval[n] = 1

\* C7 amended: in any call no node has its value arithmetic or its
\* derivative rule performed more than once; an eval call that returns a
\* number performed the arithmetic of every reachable binary-operator node
\* exactly once; the value cache holds values and the derivative cache
\* derivatives, each under the node's own identity.
C7_AtMostOnceAndOnceOnReturn ==
    /\ \A n \in DOMAIN nEval : nEval[n] <= 1 /\ nD[n] <= 1
    /\ (Done("eval") /\ result.t = "number")
          => \A n \in ReachBinops(call.root) : nEval[n] = 1
    /\ status = "done" =>
          /\ \A n \in DOMAIN cache_dict :
                IsBinop(n) /\ Returned(cache_dict[n]) = Val(n, call.feed_dict)
          /\ \A n \in DOMAIN d_cache_dict :
                IsBinop(n) /\ Returned(d_cache_dict[n]) = Der(n, call.feed_dict)

\* A d call returned for a product of one shared binary-operator node, whose
\* derivative rule and value arithmetic each ran once.
C7_Witness ==
    /\ Done("d")
    /\ result.t = "number"
    /\ SharedOperand(call.root)
    /\ nodes[call.root].kind = "Multiplication"
    /\ nD[nodes[call.root].expr1] = 1
    /\ nEval[nodes[call.root].expr1] = 1

\* C8: a Variable that is a key of the feed_dict evaluates to the value
\* bound to the instance even when its name is a key too; the value bound to
\* the name is used only when the instance is no key.  The same holds for
\* the operands of an operator applied to that Variable.
C8_InstanceBeforeName ==
    Done("eval") =>
        LET fd == call.feed_dict
            r == nodes[call.root]
            Pick(v) == IF v \in DOMAIN fd.inst THEN fd.inst[v]
                       ELSE fd.name[nodes[v].name]
        IN  /\ (IsVar(call.root) /\ Resolvable(call.root, fd))
                  => result = Returned(Pick(call.root))
            /\ (r.kind = "Subtraction" /\ IsVar(r.expr1) /\ IsVar(r.expr2)
                  /\ Resolvable(r.expr1, fd) /\ Resolvable(r.expr2, fd))
                  => result = NumSub(Pick(r.expr1), Pick(r.expr2))

\* A Variable bound by instance to 2^-600 and by name to another value
\* evaluated to 2^-600.
C8_Witness ==
    /\ Done("eval")
    /\ IsVar(call.root)
    /\ call.root \in DOMAIN call.feed_dict.inst
    /\ nodes[call.root].name \in DOMAIN call.feed_dict.name
    /\ call.feed_dict.inst[call.root] # call.feed_dict.name[nodes[call.root].name]
    /\ result = Returned(Tiny)

\* C9: every binary-operator node an operator overload allocated has a grad
\* flag equal to the AND of its two operands' flags.
C9_GradIsAndOfOperands ==
    \A n \in Ids :
        (IsBinop(n) /\ nodes[n].by # "__init__")
            => nodes[n].grad = (nodes[nodes[n].expr1].grad
                                  /\ nodes[nodes[n].expr2].grad)

\* The number of method steps a call on root can take: one per invocation,
\* two more per value computed, and for a derivative computed two more (sum,
\* difference) or four more (product, quotient) plus its operand values.
StepBound(fn, root) ==
    LET b == Cardinality(ReachBinops(root))
    IN  IF fn = "eval" THEN 1 + 4 * b ELSE 1 + 12 * b

\* The points a method's frame stands at: its entry, and the returns of the
\* calls it makes.
Points(fn, kind) ==
    IF kind \in {"Variable", "Constant"} THEN {"enter"}
    ELSE IF fn = "_eval" THEN {"enter", "res1", "res2"}
    ELSE IF kind \in {"Addition", "Subtraction"} THEN {"enter", "d1", "d2"}
    ELSE {"enter", "d1", "d2", "res1", "res2"}
\* The top frame stands at a point of its method, where the method's action
\* takes a step: it returns, raises or calls.
CanStep == stack # <<>> /\ Top.pc \in Points(Top.fn, nodes[Top.node].kind)

\* A running call can always take its next step and never takes more steps
\* than the bound its graph gives: it ends.
Terminates ==
    /\ status = "running" => (CanStep /\ steps < StepBound(call.fn, call.root))
    /\ status = "done" => (stack = <<>> /\ steps <= StepBound(call.fn, call.root))

\* C10 as stated: every eval and d call terminates, returning a number or
\* raising the unbound-variable error.
C10_AsStated ==
    /\ Terminates
    /\ status = "done" => result.t \in {"number", "UnboundVariable"}

\* C10 amended: every eval and d call terminates, returning a number or
\* raising the unbound-variable error, the ZeroDivisionError or
\* OverflowError of its arithmetic, or the RecursionError of a graph too
\* deep for the stack.
C10_TerminatesWithOutcome ==
    /\ Terminates
    /\ status = "done"
          => result.t \in {"number", "UnboundVariable", "ZeroDivisionError",
                           "OverflowError", "RecursionError"}
    /\ result.t = "RecursionError" => TooDeep

\* A d call on a product of one shared product of a variable returned after
\* 21 steps, where the recursion without the caches takes 33.
C10_Witness ==
    /\ Done("d")
    /\ SharedOperand(call.root)
    /\ nodes[call.root].kind = "Multiplication"
    /\ nodes[nodes[call.root].expr1].kind = "Multiplication"
    /\ result.t = "number"
    /\ steps = 21

====
